---- MODULE Spec2Model ----
(***************************************************************************)
(* Model of gitbrute (src/gitbrute.go): the candidate enumerator (explore),*)
(* the field locator/grower (fixHeader, addOrFindNonce, growNonce), the    *)
(* search worker (bruteForce) and the orchestrator (main).                 *)
(*                                                                         *)
(* Buffers are sequences of byte values (ASCII codes).  Offsets are the    *)
(* 0-based offsets of the Go code; At and Slice translate them.            *)
(*                                                                         *)
(* The digest is SHA-1 (crypto/sha1), computed on 32-bit words held as     *)
(* pairs of 16-bit halves.  The pattern is an anchored character class     *)
(* "^[...]" over the first hex character of the digest.  The               *)
(* collaborator's write-back (hash-object, update-ref) lies outside the    *)
(* model: main's last modelled step is close(done).                        *)
(***************************************************************************)
EXTENDS Integers, Sequences, FiniteSets

\* ---------------------------------------------------------------- bounds
\* width in bits of the machine integer "int" (64 in the build)
IntBits == 3
\* capacity of the possibilities channel (512 in the source)
QueueCap == 1

\* ---------------------------------------------------------------- bytes
NUL == 0
NL == 10
SP == 32
Zero == 48

RECURSIVE Pow2(_)
Pow2(n) == IF n = 0 THEN 1 ELSE 2 * Pow2(n - 1)

MaxInt == Pow2(IntBits - 1) - 1
MinInt == 0 - Pow2(IntBits - 1)

\* t.nonce++ on a signed machine integer (Go wraps on overflow)
IncInt(n) == IF n = MaxInt THEN MinInt ELSE n + 1

\* s[k] and s[a:b] with Go's 0-based offsets
At(s, k) == s[k + 1]
Slice(s, a, b) == SubSeq(s, a + 1, b)
InBounds(s, k) == k >= 0 /\ k < Len(s)

Min(S) == CHOOSE x \in S : \A y \in S : x <= y
Max(S) == CHOOSE x \in S : \A y \in S : x >= y

\* bytes.Index: offset of the first occurrence of sub in s, or -1
Index(s, sub) ==
    IF \E k \in 0..(Len(s) - Len(sub)) : Slice(s, k, k + Len(sub)) = sub
    THEN CHOOSE k \in 0..(Len(s) - Len(sub)) :
             /\ Slice(s, k, k + Len(sub)) = sub
             /\ \A j \in 0..(k - 1) : Slice(s, j, j + Len(sub)) # sub
    ELSE 0 - 1

\* bytes.IndexByte
IndexByte(s, b) == Index(s, <<b>>)

\* bytes.Contains
Contains(s, sub) == Index(s, sub) >= 0

\* fmt.Sprintf("%d", n) for n >= 0
RECURSIVE Itoa(_)
Itoa(n) == IF n < 10 THEN <<Zero + n>> ELSE Itoa(n \div 10) \o <<Zero + (n % 10)>>

\* the literal "commit " of fixHeader's format string
commitPrefix == <<99, 111, 109, 109, 105, 116, SP>>

\* the -nonce-name flag: the field is named "n" in the explored runs
nonceName == <<110>>

\* nonceHeader := "\n" + *nonceName + " "
nonceHeader == <<NL>> \o nonceName \o <<SP>>

\* const hex = "0123456789abcdef"
hex == <<48, 49, 50, 51, 52, 53, 54, 55, 56, 57, 97, 98, 99, 100, 101, 102>>

\* hexInPlace: two hex characters per byte, high nibble first
RECURSIVE hexInPlace(_)
hexInPlace(v) ==
    IF v = <<>> THEN <<>>
    ELSE <<hex[(v[1] \div 16) + 1], hex[(v[1] % 16) + 1]>> \o hexInPlace(Tail(v))

\* the element of a one-element set: The({e(x) : x \in {v}}) reads "x := v; e(x)",
\* the value of the local variable x computed once
The(S) == CHOOSE x \in S : TRUE

\* ---------------------------------------------------------------- crypto/sha1
\* A uint32 is a pair <<high 16 bits, low 16 bits>>.
\* x & y on n-bit numbers, bit by bit
RECURSIVE andBits(_, _, _)
andBits(a, b, n) ==
    IF n = 0 THEN 0
    ELSE (a % 2) * (b % 2) + 2 * andBits(a \div 2, b \div 2, n - 1)
\* x & y on 4-bit numbers, as a table
andNibble == [a \in 0..15 |-> [b \in 0..15 |-> andBits(a, b, 4)]]
\* x & y on 16-bit numbers
and16(a, b) ==
    andNibble[a % 16][b % 16]
    + 16 * andNibble[(a \div 16) % 16][(b \div 16) % 16]
    + 256 * andNibble[(a \div 256) % 16][(b \div 256) % 16]
    + 4096 * andNibble[a \div 4096][b \div 4096]
\* the uint32 operators &, |, ^, ^x (complement) and + (wrapping)
and32(x, y) == <<and16(x[1], y[1]), and16(x[2], y[2])>>
or32(x, y) == The({ <<x[1] + y[1] - m[1], x[2] + y[2] - m[2]>> : m \in {and32(x, y)} })
xor32(x, y) == The({ <<x[1] + y[1] - 2 * m[1], x[2] + y[2] - 2 * m[2]>> : m \in {and32(x, y)} })
not32(x) == <<65535 - x[1], 65535 - x[2]>>
add32(x, y) == <<(x[1] + y[1] + ((x[2] + y[2]) \div 65536)) % 65536, (x[2] + y[2]) % 65536>>
\* bits.RotateLeft32(x, k)
rotl16(x, k) ==
    <<((x[1] * Pow2(k)) % 65536) + (x[2] \div Pow2(16 - k)),
      ((x[2] * Pow2(k)) % 65536) + (x[1] \div Pow2(16 - k))>>
rotl32(x, k) == IF k >= 16 THEN rotl16(<<x[2], x[1]>>, k - 16) ELSE rotl16(x, k)

\* init0..init4 (0x67452301, 0xEFCDAB89, 0x98BADCFE, 0x10325476, 0xC3D2E1F0)
\* and _K0.._K3 (0x5A827999, 0x6ED9EBA1, 0x8F1BBCDC, 0xCA62C1D6)
sha1Init == << <<26437, 8961>>, <<61389, 43913>>, <<39098, 56574>>, <<4146, 21622>>, <<50130, 57840>> >>
sha1K == << <<23170, 31129>>, <<28377, 60321>>, <<36635, 48348>>, <<51810, 49622>> >>

\* the 16 big-endian words of a 64-byte block
blockWords(p) == [j \in 1..16 |-> <<p[4 * j - 3] * 256 + p[4 * j - 2], p[4 * j - 1] * 256 + p[4 * j]>>]

\* the message schedule, n more words: w[i] = rotl1(w[i-3] ^ w[i-8] ^ w[i-14] ^ w[i-16])
RECURSIVE schedule(_, _)
schedule(w, n) ==
    IF n = 0 THEN w
    ELSE IF n = 1
    THEN Append(w, rotl32(xor32(xor32(w[Len(w) - 2], w[Len(w) - 7]),
                                xor32(w[Len(w) - 13], w[Len(w) - 15])), 1))
    ELSE The({ schedule(m, n - (n \div 2)) : m \in {schedule(w, n \div 2)} })

\* blockGeneric's f of round r: b&c | (^b)&d, b^c^d, ((b|c)&d) | (b&c), b^c^d
roundF(r, b, c, d) ==
    IF r < 20 THEN or32(and32(b, c), and32(not32(b), d))
    ELSE IF r < 40 THEN xor32(xor32(b, c), d)
    ELSE IF r < 60 THEN or32(and32(or32(b, c), d), and32(b, c))
    ELSE xor32(xor32(b, c), d)

\* one round on s = <<a, b, c, d, e>>:
\* a, b, c, d, e = rotl(a,5) + f + e + w[r] + K, a, rotl(b,30), c, d
round(s, w, r) ==
    << add32(add32(add32(add32(rotl32(s[1], 5), roundF(r, s[2], s[3], s[4])),
                         s[5]), w[r + 1]), sha1K[(r \div 20) + 1]),
       s[1], rotl32(s[2], 30), s[3], s[4] >>

\* rounds lo .. hi-1, the first half and then the second half
RECURSIVE rounds(_, _, _, _)
rounds(s, w, lo, hi) ==
    IF hi = lo + 1 THEN round(s, w, lo)
    ELSE The({ rounds(m, w, (lo + hi) \div 2, hi) : m \in {rounds(s, w, lo, (lo + hi) \div 2)} })

\* blockGeneric: the digest state h after one more 64-byte block p
sha1Block(h, p) ==
    The({ [j \in 1..5 |-> add32(h[j], s[j])] :
            s \in { rounds(h, w, 0, 80) : w \in {schedule(blockWords(p), 64)} } })

\* the digest state h after the blocks of p, a multiple of 64 bytes
RECURSIVE sha1Blocks(_, _)
sha1Blocks(h, p) ==
    IF p = <<>> THEN h
    ELSE The({ sha1Blocks(n, SubSeq(p, 65, Len(p))) : n \in {sha1Block(h, SubSeq(p, 1, 64))} })

\* the padding of checkSum: 0x80, zeros up to 56 mod 64, the length in bits as 8 bytes
sha1Pad(n) ==
    <<128>> \o [j \in 1..((55 - n) % 64) |-> 0] \o <<0, 0, 0, 0>>
    \o <<(8 * n) \div 16777216, ((8 * n) \div 65536) % 256, ((8 * n) \div 256) % 256, (8 * n) % 256>>

\* the words of the state as big-endian bytes
RECURSIVE wordsBytes(_)
wordsBytes(h) ==
    IF Len(h) = 0 THEN <<>>
    ELSE <<h[1][1] \div 256, h[1][1] % 256, h[1][2] \div 256, h[1][2] % 256>> \o wordsBytes(Tail(h))

\* s1.Reset(); s1.Write(obj); s1.Sum(...): the SHA-1 digest of the whole buffer
sha1Digest(buf) == wordsBytes(sha1Blocks(sha1Init, buf \o sha1Pad(Len(buf))))

\* re.Match / re.MatchString for a pattern "^[class]"
reMatch(class, s) == Len(s) > 0 /\ s[1] \in class

\* strings.TrimSpace
RECURSIVE TrimLeft(_)
TrimLeft(s) == IF s # <<>> /\ s[1] \in {SP, NL} THEN TrimLeft(Tail(s)) ELSE s
RECURSIVE TrimRight(_)
TrimRight(s) ==
    IF s # <<>> /\ s[Len(s)] \in {SP, NL} THEN TrimRight(SubSeq(s, 1, Len(s) - 1)) ELSE s
TrimSpace(s) == TrimRight(TrimLeft(s))

\* fixHeader: drop everything up to the first NUL, prepend "commit <len>\0"
fixHeader(buf) ==
    LET c == Slice(buf, IndexByte(buf, NUL) + 1, Len(buf))
    IN commitPrefix \o Itoa(Len(c)) \o <<NUL>> \o c

\* the scan "for obj[i+1] != '\n' { i++ }": the offset it stops at, or -1 when
\* it runs off the end of the buffer (index out of range)
ScanToLineEnd(buf, from) ==
    IF \E k \in from..(Len(buf) - 2) : At(buf, k + 1) = NL
    THEN CHOOSE k \in from..(Len(buf) - 2) :
             /\ At(buf, k + 1) = NL
             /\ \A j \in from..(k - 1) : At(buf, j + 1) # NL
    ELSE 0 - 1

\* insertNonce putting a placeholder digit '0' after nonceHeader
insertNoncePlaceholder(buf) ==
    The({ fixHeader(n) :
            n \in { Slice(buf, 0, at) \o nonceHeader \o <<Zero>> \o Slice(buf, at, Len(buf)) :
                      at \in {Index(buf, <<NL, NL>>)} } })

\* addOrFindNonce, lines 83-87: the field is absent: put nonceHeader before
\* the first blank line and fix the header
insertNonce(buf) ==
    The({ fixHeader(n) :
            n \in { Slice(buf, 0, at) \o nonceHeader \o Slice(buf, at, Len(buf)) :
                      at \in {Index(buf, <<NL, NL>>)} } })

\* addOrFindNonce, lines 89-93: the offset of the last byte of the field's
\* line; panics is TRUE when the scan indexes out of range
locateNonce(buf) ==
    The({ IF at < 0 THEN [panics |-> TRUE, obj |-> buf, idx |-> 0]
                   ELSE [panics |-> FALSE, obj |-> buf, idx |-> at] :
            at \in {ScanToLineEnd(buf, Index(buf, nonceHeader))} })

\* addOrFindNonce with a scan that stops one byte late, on the newline
addOrFindNoncePast(buf) ==
    IF ~Contains(buf, nonceHeader) /\ Index(buf, <<NL, NL>>) < 0
    THEN [panics |-> TRUE, obj |-> buf, idx |-> 0]
    ELSE The({ [panics |-> r.panics, obj |-> r.obj,
                idx |-> IF r.panics THEN 0 ELSE r.idx + 1] :
                 r \in { locateNonce(o) :
                           o \in {IF Contains(buf, nonceHeader) THEN buf ELSE insertNonce(buf)} } })

\* addOrFindNonce without the test for a field already there: always inserts
addOrFindNonceAlways(buf) ==
    IF Index(buf, <<NL, NL>>) < 0
    THEN [panics |-> TRUE, obj |-> buf, idx |-> 0]
    ELSE The({ locateNonce(o) : o \in {insertNonce(buf)} })

\* addOrFindNonce: the buffer with the field, and the offset returned.
\* panics is TRUE when the code slices or indexes out of range (no "\n\n"
\* to insert before, or no newline after the field).
addOrFindNonce(buf) ==
    IF ~Contains(buf, nonceHeader) /\ Index(buf, <<NL, NL>>) < 0
    THEN [panics |-> TRUE, obj |-> buf, idx |-> 0]
    ELSE The({ locateNonce(o) :
                 o \in {IF Contains(buf, nonceHeader) THEN buf ELSE insertNonce(buf)} })

\* growNonce: insert '0' right after the first nonceHeader, then fixHeader
growNonce(buf) ==
    The({ fixHeader(newObj) :
            newObj \in { Slice(buf, 0, at) \o <<Zero>> \o Slice(buf, at, Len(buf)) :
                           at \in {Index(buf, nonceHeader) + Len(nonceHeader)} } })

\* the loop "for nonce > 0 { ... }" of bruteForce from a given cursor, up to
\* the point where it ends (nonce = 0), meets the separating space (the
\* grow branch) or indexes outside the buffer (panics)
RECURSIVE writeDigits(_, _, _, _)
writeDigits(o, k, n, chars) ==
    IF n <= 0 THEN [obj |-> o, i |-> k, nonce |-> n, panics |-> FALSE]
    ELSE IF ~InBounds(o, k) THEN [obj |-> o, i |-> k, nonce |-> n, panics |-> TRUE]
    ELSE IF At(o, k) = SP THEN [obj |-> o, i |-> k, nonce |-> n, panics |-> FALSE]
    ELSE writeDigits([o EXCEPT ![k + 1] = chars[(n % Len(chars)) + 1]],
                     k - 1, n \div Len(chars), chars)

\* one pass of the loop of lines 119-129 from the writeNonce label, on obj
\* and nonceIdx: the candidate n is written (ended), or the cursor met a
\* space: obj = growNonce(obj); nonceIdx++
renderPass(s, n, chars) ==
    IF s.ended THEN s
    ELSE The({ IF r.panics \/ r.nonce <= 0
               THEN [obj |-> r.obj, idx |-> s.idx, ended |-> TRUE]
               ELSE [obj |-> growNonce(r.obj), idx |-> s.idx + 1, ended |-> FALSE] :
                 r \in {writeDigits(s.obj, s.idx, n, chars)} })

\* k passes one after the other, the first half and then the second half
RECURSIVE renderPasses(_, _, _, _)
renderPasses(s, k, n, chars) ==
    IF k = 1 THEN renderPass(s, n, chars)
    ELSE The({ renderPasses(m, k - (k \div 2), n, chars) :
                 m \in {renderPasses(s, k \div 2, n, chars)} })

\* "goto writeNonce" as often as the code takes it: passes until the loop
\* has ended, k of them and then twice as many
RECURSIVE renderUntilEnded(_, _, _, _)
renderUntilEnded(s, k, n, chars) ==
    IF s.ended THEN s
    ELSE The({ renderUntilEnded(m, 2 * k, n, chars) :
                 m \in {renderPasses(s, k, n, chars)} })

\* bruteForce, lines 119-131, for one candidate n from nonceIdx = idx: obj
\* and nonceIdx as they are when the loop has ended and the hash is taken
renderLoop(o, idx, n, chars) ==
    The({ [obj |-> r.obj, idx |-> r.idx] :
            r \in {renderUntilEnded([obj |-> o, idx |-> idx, ended |-> FALSE], 1, n, chars)} })

\* bruteForce, lines 109-131, by a worker whose first candidate is n: the
\* buffer it hashes
renderFresh(template, n, chars) ==
    The({ IF a.panics THEN a.obj ELSE renderLoop(a.obj, a.idx, n, chars).obj :
            a \in {addOrFindNonce(template)} })

\* ---------------------------------------------------------------- inputs
\* -nonce-chars: "0123456789" (the default) and "01"
Alphabets == { <<48, 49, 50, 51, 52, 53, 54, 55, 56, 57>>, <<48, 49>> }

\* -cpus: the worker counts explored
Cpus == {1, 2}

\* -pattern: "^[0-9a-e]", "^[0-3]", and a class no digest has
Patterns == { {48, 49, 50, 51, 52, 53, 54, 55, 56, 57, 97, 98, 99, 100, 101},
              {48, 49, 50, 51},
              {} }

\* output of "git rev-parse HEAD": "0a\n" and "f5\n"
Heads == { <<48, 97, NL>>, <<102, 53, NL>> }

\* output of "git cat-file -p HEAD":
\*   "tr\n\nm\n"     field absent, content of 6 bytes (9 once the field is added)
\*   "t\nn 9\n\nm"   field present with the value "9", content of 8 bytes
Templates == { <<116, 114, NL, NL, 109, NL>>,
               <<116, NL, 110, SP, 57, NL, NL, 109>> }

\* further outputs of "git cat-file -p HEAD", explored with one worker:
\*   "tr\nn 9\n\nm"   field present, content of 9 bytes (10 after one grow)
\*   "t\nm"           no blank line, field absent
\*   "t\nn 9\nm"      no blank line, field present
\*   "t\n\nx\nn 5\n"  field absent from the header lines, a body line "n 5"
\*   "t\nn a b\n\nm"  field present with the value "a b"
\*   "t\n\nn 5"       a body line "n 5" that ends the object, no newline after
WideTemplates ==
    Templates \cup
    { <<116, 114, NL, 110, SP, 57, NL, NL, 109>>,
      <<116, NL, 109>>,
      <<116, NL, 110, SP, 57, NL, 109>>,
      <<116, NL, NL, 120, NL, 110, SP, 53, NL>>,
      <<116, NL, 110, SP, 97, SP, 98, NL, NL, 109>>,
      <<116, NL, NL, 110, SP, 53>> }

Workers == 1..Max(Cpus)

\* ---------------------------------------------------------------- digests
\* obj and nonceIdx of a worker between candidates: every pair that the
\* render loop of lines 119-131 reaches from the pairs in frontier
RECURSIVE workerBuffers(_, _, _)
workerBuffers(seen, frontier, chars) ==
    IF frontier = {} THEN seen
    ELSE The({ workerBuffers(seen \cup frontier, nxt \ (seen \cup frontier), chars) :
                 nxt \in {{ renderLoop(s.obj, s.idx, n, chars) :
                              s \in frontier, n \in 1..MaxInt }} })

\* every buffer a worker can hold at line 134 for the objects and alphabets
\* explored
hashedBuffers ==
    UNION { { s.obj : s \in workerBuffers({}, {[obj |-> a.obj, idx |-> a.idx]}, chars) } :
              a \in { r \in { addOrFindNonce(fixHeader(out)) : out \in WideTemplates } :
                        ~r.panics },
              chars \in Alphabets }

\* these buffers with their digests, computed once
digests == { <<b, sha1Digest(b)>> : b \in hashedBuffers }

\* s1.Reset(); s1.Write(obj); s1.Sum(hexBuf[:0]), lines 133-135
sha1Sum(buf) ==
    IF \E d \in digests : d[1] = buf
    THEN (CHOOSE d \in digests : d[1] = buf)[2]
    ELSE sha1Digest(buf)

VARIABLES
    force,          \* -force
    pattern,        \* -pattern, compiled (re)
    cpu,            \* -cpus
    nonceChars,     \* -nonce-chars
    mainPc,         \* main's position
    obj,            \* main's obj
    spawned,        \* main's loop counter i of the spawn loop
    explorePc,      \* explore's position
    tnonce,         \* explore's t.nonce
    possibilities,  \* the buffered channel of candidates
    possClosed,     \* close(possibilities) has run
    done,           \* close(done) has run
    winner,         \* main's w, <<>> until received
    pc,             \* each worker's position
    wobj,           \* each worker's obj
    nonceIdx,       \* each worker's nonceIdx
    t,              \* each worker's t.nonce
    i,              \* each worker's i
    nonce,          \* each worker's nonce
    pulledLate,     \* history: done was closed when the worker received t
    crashed,        \* a goroutine panicked: the process is gone
    sent,           \* history: every candidate explore delivered, in order
    nrecv           \* history: number of receives main completed on winner

flags == <<force, pattern, cpu, nonceChars>>
mainVars == <<mainPc, obj, spawned>>
exploreVars == <<explorePc, tnonce, sent>>
chanVars == <<possibilities, possClosed>>
workerVars == <<pc, wobj, nonceIdx, t, i, nonce, pulledLate>>
vars == <<flags, mainVars, exploreVars, chanVars, done, winner, workerVars,
          crashed, nrecv>>

Init ==
    /\ force \in BOOLEAN
    /\ pattern \in Patterns
    /\ cpu \in Cpus
    /\ nonceChars \in Alphabets
    /\ mainPc = "revparse"
    /\ obj = <<>>
    /\ spawned = 0
    /\ explorePc = "idle"
    /\ tnonce = 0
    /\ possibilities = <<>>
    /\ possClosed = FALSE
    /\ done = FALSE
    /\ winner = <<>>
    /\ pc = [w \in Workers |-> "idle"]
    /\ wobj = [w \in Workers |-> <<>>]
    /\ nonceIdx = [w \in Workers |-> 0]
    /\ t = [w \in Workers |-> 0]
    /\ i = [w \in Workers |-> 0]
    /\ nonce = [w \in Workers |-> 0]
    /\ pulledLate = [w \in Workers |-> FALSE]
    /\ crashed = FALSE
    /\ sent = <<>>
    /\ nrecv = 0

\* ---------------------------------------------------------------- main
\* main, lines 155-163: rev-parse HEAD and the "already matches" exit
MainRevParse ==
    /\ ~crashed
    /\ mainPc = "revparse"
    /\ \E head \in Heads :
          mainPc' = IF reMatch(pattern, TrimSpace(head)) THEN "already" ELSE "catfile"
    /\ UNCHANGED <<flags, obj, spawned, exploreVars, chanVars, done, winner,
                   workerVars, crashed, nrecv>>

\* main, lines 165-169: read the object and give it its header
MainCatFile ==
    /\ ~crashed
    /\ mainPc = "catfile"
    /\ \E out \in Templates : obj' = fixHeader(out)
    /\ mainPc' = "goexplore"
    /\ UNCHANGED <<flags, spawned, exploreVars, chanVars, done, winner,
                   workerVars, crashed, nrecv>>

\* main, lines 165-169, over the wider set of objects
MainCatFileWide ==
    /\ ~crashed
    /\ mainPc = "catfile"
    /\ \E out \in WideTemplates : obj' = fixHeader(out)
    /\ mainPc' = "goexplore"
    /\ UNCHANGED <<flags, spawned, exploreVars, chanVars, done, winner,
                   workerVars, crashed, nrecv>>

\* main, lines 171-175: make the channels, start explore
MainGoExplore ==
    /\ ~crashed
    /\ mainPc = "goexplore"
    /\ explorePc' = "loop"
    /\ mainPc' = "spawn"
    /\ UNCHANGED <<flags, obj, spawned, tnonce, sent, chanVars, done, winner,
                   workerVars, crashed, nrecv>>

\* main, lines 177-181: one iteration of the spawn loop, or its exit
MainSpawn ==
    /\ ~crashed
    /\ mainPc = "spawn"
    /\ IF spawned < cpu
       THEN /\ spawned' = spawned + 1
            /\ wobj' = [wobj EXCEPT ![spawned + 1] = obj]
            /\ pc' = [pc EXCEPT ![spawned + 1] = "start"]
            /\ UNCHANGED mainPc
       ELSE /\ mainPc' = "recv"
            /\ UNCHANGED <<spawned, wobj, pc>>
    /\ UNCHANGED <<flags, obj, exploreVars, chanVars, done, winner,
                   nonceIdx, t, i, nonce, crashed, nrecv, pulledLate>>

\* MainCloseDone without the close: main goes on, done stays open
MainCloseDoneSkipped ==
    /\ ~crashed
    /\ mainPc = "close"
    /\ mainPc' = "hashobject"
    /\ UNCHANGED <<flags, obj, spawned, exploreVars, chanVars, done, winner,
                   workerVars, crashed, nrecv>>

\* main, line 184: close(done)
MainCloseDone ==
    /\ ~crashed
    /\ mainPc = "close"
    /\ done' = TRUE
    /\ mainPc' = "hashobject"
    /\ UNCHANGED <<flags, obj, spawned, exploreVars, chanVars, winner,
                   workerVars, crashed, nrecv>>

\* ---------------------------------------------------------------- explore
\* explore, lines 52-56: t.nonce++; c <- t (blocks while the queue is full);
\* leave the loop when the counter is back at 0
ExploreSend ==
    /\ ~crashed
    /\ explorePc = "loop"
    /\ Len(possibilities) < QueueCap
    /\ tnonce' = IncInt(tnonce)
    /\ possibilities' = Append(possibilities, tnonce')
    /\ sent' = Append(sent, tnonce')
    /\ explorePc' = IF tnonce' = 0 THEN "close" ELSE "loop"
    /\ UNCHANGED <<flags, mainVars, possClosed, done, winner, workerVars,
                   crashed, nrecv>>

\* explore, line 58: close(c)
ExploreClose ==
    /\ ~crashed
    /\ explorePc = "close"
    /\ possClosed' = TRUE
    /\ explorePc' = "done"
    /\ UNCHANGED <<flags, mainVars, tnonce, sent, possibilities, done, winner,
                   workerVars, crashed, nrecv>>

\* ---------------------------------------------------------------- bruteForce
\* bruteForce, lines 108-112: locate or create the field
Start(w) ==
    /\ ~crashed
    /\ pc[w] = "start"
    /\ \E r \in {addOrFindNonce(wobj[w])} :
          IF r.panics
          THEN /\ crashed' = TRUE
               /\ UNCHANGED <<pc, wobj, nonceIdx>>
          ELSE /\ wobj' = [wobj EXCEPT ![w] = r.obj]
               /\ nonceIdx' = [nonceIdx EXCEPT ![w] = r.idx]
               /\ pc' = [pc EXCEPT ![w] = "range"]
               /\ UNCHANGED crashed
    /\ UNCHANGED <<flags, mainVars, exploreVars, chanVars, done, winner,
                   t, i, nonce, nrecv, pulledLate>>

\* bruteForce, line 114: for t := range possibilities
Pull(w) ==
    /\ ~crashed
    /\ pc[w] = "range"
    /\ \/ /\ possibilities # <<>>
          /\ t' = [t EXCEPT ![w] = Head(possibilities)]
          /\ possibilities' = Tail(possibilities)
          /\ pulledLate' = [pulledLate EXCEPT ![w] = done]
          /\ pc' = [pc EXCEPT ![w] = "select"]
       \/ /\ possibilities = <<>>
          /\ possClosed
          /\ pc' = [pc EXCEPT ![w] = "returned"]
          /\ UNCHANGED <<t, possibilities, pulledLate>>
    /\ UNCHANGED <<flags, mainVars, exploreVars, possClosed, done, winner,
                   wobj, nonceIdx, i, nonce, crashed, nrecv>>

\* Select without the check of done: every candidate is rendered
SelectIgnoresDone(w) ==
    /\ ~crashed
    /\ pc[w] = "select"
    /\ pc' = [pc EXCEPT ![w] = "writeNonce"]
    /\ i' = [i EXCEPT ![w] = nonceIdx[w]]
    /\ nonce' = [nonce EXCEPT ![w] = t[w]]
    /\ UNCHANGED <<flags, mainVars, exploreVars, chanVars, done, winner,
                   wobj, nonceIdx, t, crashed, nrecv, pulledLate>>

\* bruteForce, lines 115-121: the non-blocking check of done, then the
\* writeNonce label (i := nonceIdx; nonce := t.nonce)
Select(w) ==
    /\ ~crashed
    /\ pc[w] = "select"
    /\ IF done
       THEN /\ pc' = [pc EXCEPT ![w] = "returned"]
            /\ UNCHANGED <<i, nonce>>
       ELSE /\ pc' = [pc EXCEPT ![w] = "writeNonce"]
            /\ i' = [i EXCEPT ![w] = nonceIdx[w]]
            /\ nonce' = [nonce EXCEPT ![w] = t[w]]
    /\ UNCHANGED <<flags, mainVars, exploreVars, chanVars, done, winner,
                   wobj, nonceIdx, t, crashed, nrecv, pulledLate>>

\* WriteNonce with "continue" in place of the grow branch: a candidate that
\* meets the space is dropped and the worker takes the next one
WriteNonceGivesUp(w) ==
    /\ ~crashed
    /\ pc[w] = "writeNonce"
    /\ \E r \in {writeDigits(wobj[w], i[w], nonce[w], nonceChars)} :
          /\ wobj' = [wobj EXCEPT ![w] = r.obj]
          /\ i' = [i EXCEPT ![w] = r.i]
          /\ nonce' = [nonce EXCEPT ![w] = r.nonce]
          /\ crashed' = r.panics
          /\ pc' = [pc EXCEPT ![w] = IF r.panics THEN "writeNonce"
                                    ELSE IF r.nonce > 0 THEN "range" ELSE "hash"]
    /\ UNCHANGED <<flags, mainVars, exploreVars, chanVars, done, winner,
                   nonceIdx, t, nrecv, pulledLate>>

\* bruteForce, lines 122-131: the loop, run to the point where it ends
\* (on to hashing) or meets the separating space (on to growNonce)
WriteNonce(w) ==
    /\ ~crashed
    /\ pc[w] = "writeNonce"
    /\ \E r \in {writeDigits(wobj[w], i[w], nonce[w], nonceChars)} :
          /\ wobj' = [wobj EXCEPT ![w] = r.obj]
          /\ i' = [i EXCEPT ![w] = r.i]
          /\ nonce' = [nonce EXCEPT ![w] = r.nonce]
          /\ crashed' = r.panics
          /\ pc' = [pc EXCEPT ![w] = IF r.panics THEN "writeNonce"
                                    ELSE IF r.nonce > 0 THEN "grow" ELSE "hash"]
    /\ UNCHANGED <<flags, mainVars, exploreVars, chanVars, done, winner,
                   nonceIdx, t, nrecv, pulledLate>>

\* Grow with a growNonce that leaves out the trailing fixHeader
GrowStale(w) ==
    /\ ~crashed
    /\ pc[w] = "grow"
    /\ \E at \in {Index(wobj[w], nonceHeader) + Len(nonceHeader)} :
          wobj' = [wobj EXCEPT ![w] = Slice(wobj[w], 0, at) \o <<Zero>> \o Slice(wobj[w], at, Len(wobj[w]))]
    /\ nonceIdx' = [nonceIdx EXCEPT ![w] = nonceIdx[w] + 1]
    /\ i' = [i EXCEPT ![w] = nonceIdx[w] + 1]
    /\ nonce' = [nonce EXCEPT ![w] = t[w]]
    /\ pc' = [pc EXCEPT ![w] = "writeNonce"]
    /\ UNCHANGED <<flags, mainVars, exploreVars, chanVars, done, winner,
                   t, crashed, nrecv, pulledLate>>

\* Grow with a growNonce that inserts at the start of nonceHeader instead
\* of after it
GrowBefore(w) ==
    /\ ~crashed
    /\ pc[w] = "grow"
    /\ \E at \in {Index(wobj[w], nonceHeader)} :
          wobj' = [wobj EXCEPT ![w] = fixHeader(Slice(wobj[w], 0, at) \o <<Zero>> \o Slice(wobj[w], at, Len(wobj[w])))]
    /\ nonceIdx' = [nonceIdx EXCEPT ![w] = nonceIdx[w] + 1]
    /\ i' = [i EXCEPT ![w] = nonceIdx[w] + 1]
    /\ nonce' = [nonce EXCEPT ![w] = t[w]]
    /\ pc' = [pc EXCEPT ![w] = "writeNonce"]
    /\ UNCHANGED <<flags, mainVars, exploreVars, chanVars, done, winner,
                   t, crashed, nrecv, pulledLate>>

\* bruteForce, lines 123-127: the cursor is on a space:
\* obj = growNonce(obj); nonceIdx++; goto writeNonce.
Grow(w) ==
    /\ ~crashed
    /\ pc[w] = "grow"
    /\ wobj' = [wobj EXCEPT ![w] = growNonce(wobj[w])]
    /\ nonceIdx' = [nonceIdx EXCEPT ![w] = nonceIdx[w] + 1]
    /\ i' = [i EXCEPT ![w] = nonceIdx[w] + 1]
    /\ nonce' = [nonce EXCEPT ![w] = t[w]]
    /\ pc' = [pc EXCEPT ![w] = "writeNonce"]
    /\ UNCHANGED <<flags, mainVars, exploreVars, chanVars, done, winner,
                   t, crashed, nrecv, pulledLate>>

\* Hash without the test of the digest: every buffer goes on to the send
HashAlways(w) ==
    /\ ~crashed
    /\ pc[w] = "hash"
    /\ pc' = [pc EXCEPT ![w] = "send"]
    /\ UNCHANGED <<flags, mainVars, exploreVars, chanVars, done, winner,
                   wobj, nonceIdx, t, i, nonce, crashed, nrecv, pulledLate>>

\* bruteForce, lines 133-137: hash the buffer; no match: next candidate
Hash(w) ==
    /\ ~crashed
    /\ pc[w] = "hash"
    /\ pc' = [pc EXCEPT ![w] =
                 IF reMatch(pattern, hexInPlace(sha1Sum(wobj[w])))
                 THEN "send" ELSE "range"]
    /\ UNCHANGED <<flags, mainVars, exploreVars, chanVars, done, winner,
                   wobj, nonceIdx, t, i, nonce, crashed, nrecv, pulledLate>>

\* Publish with a main that keeps receiving on winner
PublishAgain(w) ==
    /\ ~crashed
    /\ pc[w] = "send"
    /\ mainPc = "recv"
    /\ winner' = wobj[w]
    /\ nrecv' = nrecv + 1
    /\ pc' = [pc EXCEPT ![w] = "returned"]
    /\ UNCHANGED <<flags, mainVars, exploreVars, chanVars, done,
                   wobj, nonceIdx, t, i, nonce, crashed, pulledLate>>

\* bruteForce, lines 139-140 with main, line 183: the unbuffered winner
\* channel hands the worker's buffer to main when both are at the channel
Publish(w) ==
    /\ ~crashed
    /\ pc[w] = "send"
    /\ mainPc = "recv"
    /\ winner' = wobj[w]
    /\ nrecv' = nrecv + 1
    /\ mainPc' = "close"
    /\ pc' = [pc EXCEPT ![w] = "returned"]
    /\ UNCHANGED <<flags, obj, spawned, exploreVars, chanVars, done,
                   wobj, nonceIdx, t, i, nonce, crashed, pulledLate>>

Next ==
    \/ MainRevParse
    \/ MainCatFile
    \/ MainGoExplore
    \/ MainSpawn
    \/ MainCloseDone
    \/ ExploreSend
    \/ ExploreClose
    \/ \E w \in Workers : Start(w)
    \/ \E w \in Workers : Pull(w)
    \/ \E w \in Workers : Select(w)
    \/ \E w \in Workers : WriteNonce(w)
    \/ \E w \in Workers : Grow(w)
    \/ \E w \in Workers : Hash(w)
    \/ \E w \in Workers : Publish(w)

Spec == Init /\ [][Next]_vars

\* The program run with -cpus 1 over the wider set of objects.
SeqInit == Init /\ cpu = 1

SeqNext ==
    \/ MainRevParse
    \/ MainCatFileWide
    \/ MainGoExplore
    \/ MainSpawn
    \/ MainCloseDone
    \/ ExploreSend
    \/ ExploreClose
    \/ \E w \in Workers : Start(w)
    \/ \E w \in Workers : Pull(w)
    \/ \E w \in Workers : Select(w)
    \/ \E w \in Workers : WriteNonce(w)
    \/ \E w \in Workers : Grow(w)
    \/ \E w \in Workers : Hash(w)
    \/ \E w \in Workers : Publish(w)

SeqSpec == SeqInit /\ [][SeqNext]_vars

\* Each goroutine that can take a step eventually takes one.
MainStep == MainRevParse \/ MainCatFile \/ MainGoExplore \/ MainSpawn \/ MainCloseDone
ExploreStep == ExploreSend \/ ExploreClose
WorkerStep(w) ==
    Start(w) \/ Pull(w) \/ Select(w) \/ WriteNonce(w) \/ Grow(w) \/ Hash(w) \/ Publish(w)

FairSpec ==
    /\ Spec
    /\ WF_vars(MainStep)
    /\ WF_vars(ExploreStep)
    /\ \A w \in Workers : WF_vars(WorkerStep(w))

\* The fair runs with -cpus 1 over the wider set of objects.
SeqMainStep ==
    MainRevParse \/ MainCatFileWide \/ MainGoExplore \/ MainSpawn \/ MainCloseDone

SeqFairSpec ==
    /\ SeqSpec
    /\ WF_vars(SeqMainStep)
    /\ WF_vars(ExploreStep)
    /\ \A w \in Workers : WF_vars(WorkerStep(w))

\* The fair runs with a pattern that some digest matches, -force unset (no
\* line of the program reads the flag).
LiveInit == Init /\ pattern # {} /\ ~force

LiveSpec ==
    /\ LiveInit /\ [][Next]_vars
    /\ WF_vars(MainStep)
    /\ WF_vars(ExploreStep)
    /\ \A w \in Workers : WF_vars(WorkerStep(w))

\* ---------------------------------------------------------------- reading buffers
\* the content of a buffer: what follows the first NUL
ContentOf(o) == Slice(o, IndexByte(o, NUL) + 1, Len(o))

\* a string of decimal digits as a number, -1 when it is not one
RECURSIVE ParseDecFrom(_, _)
ParseDecFrom(acc, ds) ==
    IF ds = <<>> THEN acc
    ELSE IF ds[1] < Zero \/ ds[1] > Zero + 9 THEN 0 - 1
    ELSE ParseDecFrom(acc * 10 + (ds[1] - Zero), Tail(ds))
ParseDec(ds) == IF ds = <<>> THEN 0 - 1 ELSE ParseDecFrom(0, ds)

\* the buffer reads "commit <n>\0<content>" with n the length of <content>
HeaderOK(o) ==
    LET z == IndexByte(o, NUL)
    IN /\ z > Len(commitPrefix)
       /\ Slice(o, 0, Len(commitPrefix)) = commitPrefix
       /\ ParseDec(Slice(o, Len(commitPrefix), z)) = Len(o) - z - 1

\* offset in c of the first byte after the first "\n<name> "
FieldStart(c) == Index(c, nonceHeader) + Len(nonceHeader)

\* offset of the first newline at or after from (the length of c when none)
LineEnd(c, from) ==
    LET nls == {k \in from..(Len(c) - 1) : At(c, k) = NL}
    IN IF nls = {} THEN Len(c) ELSE Min(nls)

\* the field's whole value: from the space after the name to the end of line
FieldValue(c) == Slice(c, FieldStart(c), LineEnd(c, FieldStart(c)))

\* a numeral over the alphabet chars as a number, -1 when it is not one
DigitOf(b, chars) ==
    IF \E k \in 1..Len(chars) : chars[k] = b
    THEN (CHOOSE k \in 1..Len(chars) : chars[k] = b) - 1
    ELSE 0 - 1
RECURSIVE ParseNumeralFrom(_, _, _)
ParseNumeralFrom(acc, v, chars) ==
    IF v = <<>> THEN acc
    ELSE IF DigitOf(v[1], chars) < 0 THEN 0 - 1
    ELSE ParseNumeralFrom(acc * Len(chars) + DigitOf(v[1], chars), Tail(v), chars)
ParseNumeral(v, chars) == IF v = <<>> THEN 0 - 1 ELSE ParseNumeralFrom(0, v, chars)

Running == {w \in Workers : w <= cpu}

\* ---------------------------------------------------------------- claims
\* C1: the buffer main receives on winner has a digest, computed over the
\* whole buffer as received, that satisfies the pattern.
C1_WinnerMatches ==
    winner # <<>> => reMatch(pattern, hexInPlace(sha1Sum(winner)))

C1_Witness == cpu = 2 /\ nrecv = 1 /\ winner # <<>> /\ mainPc = "close"

\* C2: main completes at most one receive on the winner channel, whatever
\* the other workers find afterwards.
C2_AtMostOneWinner == nrecv <= 1

C2_Witness == nrecv = 1 /\ done /\ \E w \in Running : pc[w] = "send"

\* C3: once the gate is signaled every worker eventually reaches its return.
C3_AllWorkersExit == done ~> (\A w \in Running : pc[w] = "returned")

\* C4: when the enumerator has closed the queue, the queue is drained and
\* every worker has returned without a match, main is not left waiting on
\* the winner channel.
C4_ExhaustionReported ==
    ~(/\ explorePc = "done"
      /\ possibilities = <<>>
      /\ \A w \in Running : pc[w] = "returned"
      /\ nrecv = 0
      /\ mainPc = "recv")

\* C5: the first candidate delivered is 1, every candidate delivered is
\* non-negative, and each is strictly greater than the one before it.
C5_CandidatesIncrease ==
    /\ sent # <<>> => sent[1] = 1
    /\ \A k \in 1..Len(sent) : sent[k] >= 0
    /\ \A k \in 1..(Len(sent) - 1) : sent[k] < sent[k + 1]

\* C6: whenever a worker hashes its buffer (and for the buffer it then
\* sends, and the winner main holds) the length declared in the header
\* equals the number of content bytes after the NUL.
C6_HeaderLength ==
    /\ \A w \in Running : pc[w] \in {"hash", "send"} => HeaderOK(wobj[w])
    /\ winner # <<>> => HeaderOK(winner)

\* a worker is about to hash a buffer that growNonce took from 9 content
\* bytes to 10 and beyond, the declared length gaining a digit
C6_Witness ==
    \E w \in Running :
        /\ pc[w] = "hash"
        /\ Len(ContentOf(obj)) = 6
        /\ Len(ContentOf(wobj[w])) >= 10

\* C7: after a worker has rendered a candidate t >= 1, the field's whole
\* value read as a numeral over the alphabet is t.
C7_RoundTrip ==
    \A w \in Running :
        (pc[w] = "hash" /\ t[w] >= 1)
            => ParseNumeral(FieldValue(ContentOf(wobj[w])), nonceChars) = t[w]

\* C8: a growNonce step inserts exactly one byte right after the field name
\* and its space, keeps every other content byte in order, and leaves a
\* well-formed length header.
GrowFrame(a, b) ==
    LET ca == ContentOf(a)
        cb == ContentOf(b)
        p == FieldStart(ca)
    IN /\ Len(cb) = Len(ca) + 1
       /\ Slice(cb, 0, p) = Slice(ca, 0, p)
       /\ Slice(cb, p + 1, Len(cb)) = Slice(ca, p, Len(ca))
       /\ Len(FieldValue(cb)) = Len(FieldValue(ca)) + 1
       /\ HeaderOK(b)
       /\ Len(b) - Len(cb) = Len(commitPrefix) + Len(Itoa(Len(cb))) + 1

C8_GrowInsertsOneByte ==
    [][\A w \in Workers :
          (pc[w] = "grow" /\ pc'[w] = "writeNonce") => GrowFrame(wobj[w], wobj'[w])]_vars

\* a worker has just grown its buffer from 9 to 10 content bytes
C8_Witness ==
    \E w \in Running :
        /\ pc[w] = "writeNonce"
        /\ i[w] = nonceIdx[w]
        /\ nonce[w] = t[w]
        /\ Len(ContentOf(obj)) = 6
        /\ Len(ContentOf(wobj[w])) = 10

\* C9: the winner's content is the template's content except inside the
\* field's line: with the field line removed (template without the field)
\* or its value put back (template with the field) it is the template.
C9_WinnerFrame ==
    winner # <<>> =>
        LET T == ContentOf(obj)
            W == ContentOf(winner)
            e == LineEnd(W, FieldStart(W))
        IN /\ Contains(W, nonceHeader)
           /\ IF Contains(T, nonceHeader)
              THEN Slice(W, 0, FieldStart(W)) \o FieldValue(T) \o Slice(W, e, Len(W)) = T
              ELSE Slice(W, 0, Index(W, nonceHeader)) \o Slice(W, e, Len(W)) = T

\* a winner whose field was already in the template and has been widened
C9_Witness ==
    /\ winner # <<>>
    /\ Contains(obj, nonceHeader)
    /\ Len(winner) > Len(obj)

\* a winner whose field was added to the template
C9_WitnessAdded ==
    /\ winner # <<>>
    /\ ~Contains(obj, nonceHeader)

\* C10: with -force set the run does not stop at the "already matches" exit.
C10_ForceSkipsEarlyExit == force => mainPc # "already"

\* the object main read has a blank line ("\n\n", the body separator)
HasSeparator(o) == Contains(ContentOf(o), <<NL, NL>>)

\* C11: when the object main read has no blank line, with or without the
\* field in it, no worker gets past its start: none pulls a candidate,
\* renders, hashes or publishes.
C11_NoSeparatorIsFatal ==
    (obj # <<>> /\ ~HasSeparator(obj)) =>
        /\ \A w \in Workers : pc[w] \in {"idle", "start"}
        /\ winner = <<>>

\* the buffers of a state: main's and every worker's
Buffers == {b \in {obj} \cup {wobj[w] : w \in Workers} : b # <<>>}

\* C12: addOrFindNonce is idempotent: called on the buffer a first call
\* returned, it returns the same bytes and the same offset.
C12_AddOrFindIdempotent ==
    \A b \in Buffers :
        LET r1 == addOrFindNonce(b)
        IN ~r1.panics =>
              LET r2 == addOrFindNonce(r1.obj)
              IN /\ ~r2.panics
                 /\ r2.obj = r1.obj
                 /\ r2.idx = r1.idx

\* a worker has run addOrFindNonce on an object without the field, and the
\* call has added it
C12_Witness ==
    \E w \in Running :
        /\ pc[w] = "range"
        /\ ~Contains(obj, nonceHeader)
        /\ wobj[w] = addOrFindNonce(obj).obj
        /\ Contains(wobj[w], nonceHeader)

\* offset in the buffer o of the byte right before the newline that ends the
\* field's line
RightmostOffset(o) == LineEnd(o, FieldStart(o)) - 1

\* C13: between candidates nonceIdx is the offset of the field's rightmost
\* digit, the byte right before the newline that ends the field's line,
\* after addOrFindNonce and after any number of grows.
C13_NonceIdxAtRightmost ==
    \A w \in Running :
        pc[w] \in {"range", "select", "hash", "send"} =>
            nonceIdx[w] = RightmostOffset(wobj[w])

\* b is a with the bytes ins put in right before a's first blank line, under
\* a recomputed header, and k is the offset in b of the last byte put in
InsertedBeforeBlank(a, b, ins, k) ==
    LET A == ContentOf(a)
        B == ContentOf(b)
        at == Index(A, <<NL, NL>>)
    IN /\ at >= 0
       /\ B = Slice(A, 0, at) \o ins \o Slice(A, at, Len(A))
       /\ HeaderOK(b)
       /\ k = (Len(b) - Len(B)) + at + Len(ins) - 1

\* a worker's addOrFindNonce returns, on a buffer without the field
AddsField(w) ==
    /\ pc[w] = "start"
    /\ pc'[w] = "range"
    /\ ~Contains(wobj[w], nonceHeader)

\* C14 as stated: the new line is the field name, a space and a one-digit
\* placeholder value, and the offset returned is that digit's.
C14_InsertsPlaceholder ==
    [][\A w \in Workers :
          AddsField(w) =>
              \E d \in 48..57 :
                  InsertedBeforeBlank(wobj[w], wobj'[w], nonceHeader \o <<d>>,
                                      nonceIdx'[w])]_vars

\* C14 amended: the new line is the field name and a space, with an empty
\* value; the header is recomputed and the offset returned is that of the
\* space.
C14_InsertsEmptyField ==
    [][\A w \in Workers :
          AddsField(w) =>
              /\ InsertedBeforeBlank(wobj[w], wobj'[w], nonceHeader, nonceIdx'[w])
              /\ At(wobj'[w], nonceIdx'[w]) = SP]_vars

\* addOrFindNonce has just added the field to a worker's buffer
C14_Witness ==
    \E w \in Running :
        /\ pc[w] = "range"
        /\ ~Contains(obj, nonceHeader)
        /\ Len(wobj[w]) = Len(obj) + Len(nonceHeader)
        /\ FieldValue(ContentOf(wobj[w])) = <<>>

\* C15: for every candidate t >= 1 and every buffer with the field, the
\* render-grow-restart loop for t terminates: a worker in the loop leaves
\* it after finitely many growNonce calls, and leaves it only for the hash
\* of the same candidate.
C15_RenderTerminates ==
    /\ [][\A w \in Workers :
            pc[w] \in {"writeNonce", "grow"} =>
                pc'[w] \in {"writeNonce", "grow", "hash"} /\ t'[w] = t[w]]_vars
    /\ \A w \in Workers :
            (pc[w] \in {"writeNonce", "grow"} /\ t[w] >= 1) ~> (pc[w] = "hash")

\* a worker is about to hash a candidate of two symbols that it has rendered
\* into a field whose value came with a space in it ("a b"): the cursor got
\* past that space when the content had grown to 1000 bytes
C15_Witness ==
    \E w \in Running :
        /\ pc[w] = "hash"
        /\ t[w] = 2
        /\ FieldValue(ContentOf(obj)) = <<97, SP, 98>>
        /\ Len(ContentOf(wobj[w])) = 1000

\* the body of a buffer: everything from its first blank line on
BodyOf(o) == Slice(o, Index(o, <<NL, NL>>), Len(o))

\* C16: the field a worker has located or created lies among the header
\* lines, before the first blank line, also when the body has a line that
\* starts with the field name and a space; no byte of the body is taken for
\* the value or modified.
C16_FieldInHeaderLines ==
    \A w \in Running :
        (pc[w] \notin {"idle", "start"} /\ HasSeparator(obj)) =>
            /\ Index(wobj[w], nonceHeader) < Index(wobj[w], <<NL, NL>>)
            /\ nonceIdx[w] < Index(wobj[w], <<NL, NL>>)
            /\ BodyOf(wobj[w]) = BodyOf(obj)

\* C17: a worker that received its candidate with done already closed is at
\* its check of done or has returned: it does not render or hash the
\* candidate, does not pull another one, and does not send on winner.
C17_LatePullExits ==
    \A w \in Workers : pulledLate[w] => pc[w] \in {"select", "returned"}

\* a worker received a candidate after done was closed, and has returned
C17_Witness ==
    \E w \in Running :
        /\ pulledLate[w]
        /\ done
        /\ pc[w] = "returned"
        /\ t[w] # 0

\* C18: the buffer a worker hashes for a candidate t >= 1 depends on the
\* template and on t only: it is the buffer a worker hashes that pulls t as
\* its first candidate, whatever smaller candidates the worker rendered
\* before.
C18_BufferDeterminedByCandidate ==
    \A w \in Running :
        (pc[w] = "hash" /\ t[w] >= 1) =>
            wobj[w] = renderFresh(obj, t[w], nonceChars)

\* a worker has rendered its candidate and the buffer's digest matches
FoundMatch(w) ==
    /\ pc[w] = "hash"
    /\ reMatch(pattern, hexInPlace(sha1Sum(wobj[w])))

\* C19: with every goroutine scheduled fairly, once a worker has rendered a
\* candidate into a buffer whose digest matches, main eventually receives a
\* winner and closes done.
C19_MatchLeadsToWinner ==
    (\E w \in Running : FoundMatch(w)) ~> (winner # <<>> /\ done)

\* main has received a winner and closed done while another worker was
\* still in its loop
C19_Witness ==
    /\ winner # <<>>
    /\ done
    /\ nrecv = 1
    /\ cpu = 2
    /\ \E w \in Running : pc[w] \in {"range", "select", "writeNonce", "grow", "hash"}

\* C20: when the object has a blank line, addOrFindNonce and the rendering
\* loop stay inside the buffer: the scan for the end of the field's line
\* finds a newline, no worker ends the process with an index or slice out
\* of range, and the offsets held are offsets of the buffer.
C20_AccessInBounds ==
    (obj # <<>> /\ HasSeparator(obj)) =>
        \A w \in Running :
            /\ ~(crashed /\ pc[w] \in {"start", "writeNonce"})
            /\ pc[w] \notin {"idle", "start"} =>
                  /\ InBounds(wobj[w], nonceIdx[w])
                  /\ InBounds(wobj[w], i[w])

====
